---- MODULE Spec2Model ----
(***************************************************************************)
(* A model of the Eurostat cleaning scripts (scripts/clean_eurostat.py and *)
(* scripts/analyze_eurostat.py).                                           *)
(*                                                                         *)
(* Strings are sequences of one-character strings.  A Python float is a    *)
(* signed decimal m * 10^e with m not divisible by 10 (zero is m = 0,      *)
(* e = 0, with its sign); every literal the model feeds to float() has at  *)
(* most 9 significant digits, so the decimal is exactly the shortest repr  *)
(* of the double.                                                          *)
(***************************************************************************)
EXTENDS Integers, Sequences, FiniteSets, TLC

VARIABLES
    cell,        \* the value handed to a cell cleaner
    out,         \* [value, flags]: what the cleaner returned for it
    first,       \* the result of the first cleaning, kept across a re-cleaning
    step,        \* which cleaner call produced out
    key,         \* the composite key handed to a key parser
    parsed,      \* what the parser returned for it
    kstep,       \* which parser call produced parsed
    df,          \* EurostatCleaner.df with metadata_col and year_cols
    cleaned_df,  \* EurostatCleaner.cleaned_df
    long_df,     \* EurostatCleaner.long_df
    last,        \* the last method called on the cleaner and how it ended
    result,      \* what that call returned, printed as its report, or wrote
    csv,         \* the file handed to analyze_eurostat_file
    analysis     \* how that call ended, what it printed and returned

cellvars == <<cell, out, first, step>>
keyvars == <<key, parsed, kstep>>
objvars == <<df, cleaned_df, long_df, last, result>>
filevars == <<csv, analysis>>

-----------------------------------------------------------------------------
(* Bounds *)

MaxLen == 4          \* longest enumerated string cell
MaxParts == 5        \* most comma-separated parts of an enumerated key
MaxRows == 2         \* most data rows of a loaded table

-----------------------------------------------------------------------------
(* Characters *)

LowerSeq ==
    <<"a","b","c","d","e","f","g","h","i","j","k","l","m",
      "n","o","p","q","r","s","t","u","v","w","x","y","z">>
UpperSeq ==
    <<"A","B","C","D","E","F","G","H","I","J","K","L","M",
      "N","O","P","Q","R","S","T","U","V","W","X","Y","Z">>
DigitSeq == <<"0","1","2","3","4","5","6","7","8","9">>

LowerLetters == {LowerSeq[i] : i \in 1..Len(LowerSeq)}     \* [a-z]
UpperLetters == {UpperSeq[i] : i \in 1..Len(UpperSeq)}     \* [A-Z]
Letters == LowerLetters \cup UpperLetters                   \* [a-zA-Z]
Digits == {DigitSeq[i] : i \in 1..Len(DigitSeq)}
Whitespace == {" ", "\t"}

(* the position of character c in the sequence alphabet *)
Pos(alphabet, c) == CHOOSE i \in 1..Len(alphabet) : alphabet[i] = c

DigitVal(c) == Pos(DigitSeq, c) - 1

DigitChar(d) == DigitSeq[d + 1]

(* str.upper() on one character *)
UpperChar(c) == IF c \in LowerLetters THEN UpperSeq[Pos(LowerSeq, c)] ELSE c

-----------------------------------------------------------------------------
(* Python string operations *)

Range(s) == {s[i] : i \in 1..Len(s)}

Contains(s, c) == \E i \in 1..Len(s) : s[i] = c

Zeros(k) == [i \in 1..k |-> "0"]

(* s.strip(): drop leading and trailing whitespace *)
RECURSIVE LStrip(_)
LStrip(s) == IF s # <<>> /\ Head(s) \in Whitespace THEN LStrip(Tail(s)) ELSE s

RECURSIVE RStrip(_)
RStrip(s) ==
    IF s # <<>> /\ s[Len(s)] \in Whitespace
    THEN RStrip(SubSeq(s, 1, Len(s) - 1)) ELSE s

Strip(s) == RStrip(LStrip(s))

(* re.sub('[<class>]+', '', s): every character of the class is removed *)
ReSub(class, s) == SelectSeq(s, LAMBDA c : c \notin class)

(* re.findall('[<class>]', s): the characters of the class, in order *)
ReFindAll(class, s) == SelectSeq(s, LAMBDA c : c \in class)

(* s.upper() *)
Upper(s) == [i \in 1..Len(s) |-> UpperChar(s[i])]

(* position of the first occurrence of a character of set cs in s, 0 if none *)
FirstIndex(s, cs) ==
    IF \E i \in 1..Len(s) : s[i] \in cs
    THEN CHOOSE i \in 1..Len(s) : s[i] \in cs /\ \A j \in 1..(i - 1) : s[j] \notin cs
    ELSE 0

(* s.split(d): the parts of s between the occurrences of d *)
RECURSIVE Split(_, _)
Split(s, d) ==
    LET i == FirstIndex(s, {d})
    IN  IF i = 0 THEN <<s>>
        ELSE <<SubSeq(s, 1, i - 1)>> \o Split(SubSeq(s, i + 1, Len(s)), d)

-----------------------------------------------------------------------------
(* Python values *)

None == [kind |-> "None", neg |-> FALSE, m |-> 0, e |-> 0]
Float(neg, m, e) == [kind |-> "float", neg |-> neg, m |-> m, e |-> e]
Raised(exc) == [kind |-> exc, neg |-> FALSE, m |-> 0, e |-> 0]

IsFloat(v) == v.kind = "float"

RECURSIVE ToNat(_)
ToNat(ds) ==
    IF ds = <<>> THEN 0
    ELSE ToNat(SubSeq(ds, 1, Len(ds) - 1)) * 10 + DigitVal(ds[Len(ds)])

RECURSIVE NatDigits(_)
NatDigits(n) ==
    IF n < 10 THEN <<DigitChar(n)>>
    ELSE NatDigits(n \div 10) \o <<DigitChar(n % 10)>>

RECURSIVE DropLeadingZeros(_)
DropLeadingZeros(ds) ==
    IF ds # <<>> /\ Head(ds) = "0" THEN DropLeadingZeros(Tail(ds)) ELSE ds

RECURSIVE DropTrailingZeros(_)
DropTrailingZeros(ds) ==
    IF ds # <<>> /\ ds[Len(ds)] = "0"
    THEN DropTrailingZeros(SubSeq(ds, 1, Len(ds) - 1)) ELSE ds

(* the float with decimal digits ds (an integer) scaled by 10^e *)
MakeFloat(neg, ds, e) ==
    LET sig == DropTrailingZeros(DropLeadingZeros(ds))
        t   == Len(DropLeadingZeros(ds)) - Len(sig)
    IN  IF sig = <<>> THEN Float(neg, 0, 0)
        ELSE Float(neg, ToNat(sig), e + t)

AllDigits(s) == \A i \in 1..Len(s) : s[i] \in Digits

(* float(s): Python's float literal grammar over signs, digits, the point   *)
(* and an exponent mark; anything else is a ValueError.  (The words inf and *)
(* nan and the digit separator _ are outside the cells modelled.)           *)
PyFloat(s) ==
    LET t     == Strip(s)
        signd == t # <<>> /\ Head(t) \in {"+", "-"}
        neg   == signd /\ Head(t) = "-"
        body  == IF signd THEN Tail(t) ELSE t
        x     == FirstIndex(body, {"e", "E"})
        mant  == IF x = 0 THEN body ELSE SubSeq(body, 1, x - 1)
        expo  == IF x = 0 THEN <<>> ELSE SubSeq(body, x + 1, Len(body))
        esign == expo # <<>> /\ Head(expo) \in {"+", "-"}
        edig  == IF esign THEN Tail(expo) ELSE expo
        p     == FirstIndex(mant, {"."})
        ipart == IF p = 0 THEN mant ELSE SubSeq(mant, 1, p - 1)
        fpart == IF p = 0 THEN <<>> ELSE SubSeq(mant, p + 1, Len(mant))
        mantOk == AllDigits(ipart) /\ AllDigits(fpart) /\ Len(ipart) + Len(fpart) > 0
        expOk  == x = 0 \/ (edig # <<>> /\ AllDigits(edig))
        ev     == IF x = 0 THEN 0
                  ELSE IF esign /\ Head(expo) = "-" THEN 0 - ToNat(edig) ELSE ToNat(edig)
    IN  IF mantOk /\ expOk
        THEN MakeFloat(neg, ipart \o fpart, ev - Len(fpart))
        ELSE Raised("ValueError")

(* repr of a float: fixed notation when the decimal point position decpt    *)
(* satisfies -4 < decpt <= 16, exponent notation otherwise                  *)
FloatStr(v) ==
    LET ds    == NatDigits(v.m)
        n     == Len(ds)
        decpt == n + v.e
        sgn   == IF v.neg THEN <<"-">> ELSE <<>>
        x     == decpt - 1
        xd    == NatDigits(IF x < 0 THEN 0 - x ELSE x)
        xs    == IF Len(xd) < 2 THEN <<"0">> \o xd ELSE xd
    IN  IF v.m = 0 THEN sgn \o <<"0", ".", "0">>
        ELSE IF decpt > 16 \/ decpt <= -4
        THEN sgn \o <<ds[1]>>
                 \o (IF n > 1 THEN <<".">> \o SubSeq(ds, 2, n) ELSE <<>>)
                 \o <<"e", IF x < 0 THEN "-" ELSE "+">> \o xs
        ELSE IF decpt <= 0
        THEN sgn \o <<"0", ".">> \o Zeros(0 - decpt) \o ds
        ELSE IF decpt >= n
        THEN sgn \o ds \o Zeros(decpt - n) \o <<".", "0">>
        ELSE sgn \o SubSeq(ds, 1, decpt) \o <<".">> \o SubSeq(ds, decpt + 1, n)

(* str of an int (a float record with e >= 0 read as an integer) *)
IntStr(v) ==
    (IF v.neg THEN <<"-">> ELSE <<>>) \o NatDigits(v.m)
        \o (IF v.m = 0 THEN <<>> ELSE Zeros(v.e))

(* Cell values a loaded table holds: a string, a float, an int, or NaN *)
StrCell(s) == [kind |-> "str", s |-> s, v |-> None]
FloatCell(v) == [kind |-> "float", s |-> <<>>, v |-> v]
IntCell(v) == [kind |-> "int", s |-> <<>>, v |-> v]
NaNCell == [kind |-> "nan", s |-> <<>>, v |-> None]

(* pd.isna(value) *)
IsNa(value) == value.kind = "nan"

(* str(value) *)
PyStr(value) ==
    CASE value.kind = "str" -> value.s
      [] value.kind = "float" -> FloatStr(value.v)
      [] value.kind = "int" -> IntStr(value.v)
      [] value.kind = "nan" -> <<"n", "a", "n">>

-----------------------------------------------------------------------------
(* Numbers.  A statistic is the exact rational num/den in lowest terms     *)
(* with den > 0; the double the code computes is its rounding (the sums of  *)
(* the values fed here are exact in doubles).  nan, inf and -inf are kept   *)
(* apart, and a standard deviation is kept as the number under the root.    *)

RECURSIVE Pow10(_)
Pow10(n) == IF n = 0 THEN 1 ELSE 10 * Pow10(n - 1)

Abs(n) == IF n < 0 THEN 0 - n ELSE n

RECURSIVE GCD(_, _)
GCD(a, b) == IF b = 0 THEN a ELSE GCD(b, a % b)

Num(n, d) ==
    LET g == GCD(Abs(n), d)
    IN  [kind |-> "num", num |-> IF n < 0 THEN 0 - (Abs(n) \div g) ELSE n \div g,
         den |-> d \div g]

NaN == [kind |-> "nan", num |-> 0, den |-> 1]
PosInf == [kind |-> "inf", num |-> 0, den |-> 1]
NegInf == [kind |-> "-inf", num |-> 0, den |-> 1]

(* the number a float value is *)
ToNum(v) ==
    LET n == IF v.neg THEN 0 - v.m ELSE v.m
    IN  IF v.e >= 0 THEN Num(n * Pow10(v.e), 1) ELSE Num(n, Pow10(0 - v.e))

NumAdd(a, b) == Num(a.num * b.den + b.num * a.den, a.den * b.den)
NumSub(a, b) == Num(a.num * b.den - b.num * a.den, a.den * b.den)
NumMul(a, b) == Num(a.num * b.num, a.den * b.den)
NumLess(a, b) == a.num * b.den < b.num * a.den

(* a / b for b # 0 *)
NumDiv(a, b) ==
    IF b.num < 0 THEN Num(0 - (a.num * b.den), a.den * (0 - b.num))
    ELSE Num(a.num * b.den, a.den * b.num)

-----------------------------------------------------------------------------
(* clean_eurostat.py: EurostatCleaner.clean_value, extract_flags *)

MissingTokens ==
    { <<>>, <<":">>, <<":", " ", "m">>, <<":", " ", "c">>, <<":", " ", "z">> }

(* a ValueError from float() is caught and gives None *)
FloatOrNone(cleaned) ==
    IF PyFloat(cleaned).kind = "ValueError" THEN None ELSE PyFloat(cleaned)

(* clean_value with the decimal point in the character class it removes *)
clean_value_StripsPoint(value) ==
    IF IsNa(value) THEN None
    ELSE LET value_str == Strip(PyStr(value))
         IN  IF value_str \in MissingTokens THEN None
             ELSE LET cleaned == ReSub(Letters \cup {" ", ":", "."}, value_str)
                  IN  IF cleaned = <<>> THEN None ELSE FloatOrNone(cleaned)

clean_value(value) ==
    IF IsNa(value) THEN None
    ELSE LET value_str == Strip(PyStr(value))
         IN  IF value_str \in MissingTokens THEN None
             ELSE LET cleaned == ReSub(Letters \cup {" ", ":"}, value_str)
                  IN  IF cleaned = <<>> THEN None ELSE FloatOrNone(cleaned)

extract_flags(value) ==
    IF IsNa(value) THEN <<>>
    ELSE ReFindAll(LowerLetters, Strip(PyStr(value)))

(* analyze_eurostat.py: clean_eurostat_value.  value.strip() and            *)
(* ':' in value are str operations: on a float they raise                   *)
clean_eurostat_value(value) ==
    IF IsNa(value) THEN None
    ELSE IF value.kind # "str" THEN Raised("AttributeError")
    ELSE IF Strip(value.s) = <<>> \/ Contains(value.s, ":") THEN None
    ELSE FloatOrNone(ReSub(LowerLetters \cup {" ", ":"}, Strip(PyStr(value))))

-----------------------------------------------------------------------------
(* The cells the cleaners are applied to *)

CellChars == {"0", "1", ".", "-", " ", ":", "e", "x", "E"}

Str(n) == UNION {[1..k -> CellChars] : k \in 0..n}

(* longer cells: the recognized unavailability tokens, the example cells of *)
(* the data dictionary, and literals whose repr uses exponent notation      *)
ExtraCells ==
    { <<":", " ", "m">>, <<":", " ", "c">>, <<":", " ", "z">>,
      <<"1", "0", " ", "e">>, <<"1", "2", ".", "3", " ", "e">>,
      <<"1", "0", " ", "b", "p">>, <<"1", "0", " ", "E">>,
      <<"0", ".", "0", "0", "0", "1">>,
      <<"0", ".", "0", "0", "0", "0", "1">>,
      <<"1","0","0","0","0","0","0","0","0","0","0","0","0","0","0","0">>,
      <<"1","0","0","0","0","0","0","0","0","0","0","0","0","0","0","0","0">> }

(* numbers a numeric column holds *)
FloatCells ==
    { IntCell(Float(FALSE, 1, 1)), IntCell(Float(TRUE, 12, 0)),
      FloatCell(Float(FALSE, 1, 1)), FloatCell(Float(FALSE, 0, 0)),
      FloatCell(Float(TRUE, 15, -1)), FloatCell(Float(FALSE, 1, -5)),
      FloatCell(Float(FALSE, 1, 16)) }

CellInputs ==
    {StrCell(s) : s \in Str(MaxLen) \cup ExtraCells} \cup FloatCells \cup {NaNCell}

NoOut == [value |-> None, flags |-> {}]

InitCell ==
    /\ cell \in CellInputs
    /\ out = NoOut
    /\ first = NoOut
    /\ step = "input"

(* v = cleaner.clean_value(x); f = cleaner.extract_flags(x) *)
CallCleanValue ==
    /\ step = "input"
    /\ out' = [value |-> clean_value(cell), flags |-> Range(extract_flags(cell))]
    /\ first' = out'
    /\ step' = "clean_value"
    /\ UNCHANGED <<cell, keyvars, objvars, filevars>>

(* v = clean_eurostat_value(x) *)
CallCleanEurostatValue ==
    /\ step = "input"
    /\ out' = [value |-> clean_eurostat_value(cell), flags |-> {}]
    /\ first' = out'
    /\ step' = "clean_eurostat_value"
    /\ UNCHANGED <<cell, keyvars, objvars, filevars>>

(* clean_value applied again to the float it returned *)
ReCleanValue ==
    /\ step = "clean_value"
    /\ IsFloat(out.value)
    /\ cell' = FloatCell(out.value)
    /\ out' = [value |-> clean_value(cell'), flags |-> Range(extract_flags(cell'))]
    /\ step' = "reclean_value"
    /\ UNCHANGED <<first, keyvars, objvars, filevars>>

(* clean_value applied again to the string form of the float it returned *)
ReCleanString ==
    /\ step = "clean_value"
    /\ IsFloat(out.value)
    /\ cell' = StrCell(FloatStr(out.value))
    /\ out' = [value |-> clean_value(cell'), flags |-> Range(extract_flags(cell'))]
    /\ step' = "reclean_string"
    /\ UNCHANGED <<first, keyvars, objvars, filevars>>

-----------------------------------------------------------------------------
(* Key decomposition *)

NoDims == [kind |-> "None", freq |-> <<>>, unit |-> <<>>, tra_mode |-> <<>>, geo |-> <<>>]
Dims(f, u, t, g) == [kind |-> "dict", freq |-> f, unit |-> u, tra_mode |-> t, geo |-> g]

(* clean_eurostat.py: the body of the loop of parse_metadata for one        *)
(* meta_str: the dict appended to parsed, or None when nothing is appended  *)
parse_metadata_row(meta_str) ==
    LET parts == Split(meta_str, ",")
    IN  IF Len(parts) >= 4
        THEN Dims(Strip(parts[1]), Strip(parts[2]), Strip(parts[3]), Strip(parts[4]))
        ELSE NoDims

(* analyze_eurostat.py: parse_eurostat_header *)
parse_eurostat_header(header_str) ==
    LET parts == Split(header_str, ",")
    IN  IF Len(parts) = 4
        THEN Dims(parts[1], parts[2], parts[3], Split(parts[4], "\\")[1])
        ELSE NoDims

(* ','.join(parts) *)
RECURSIVE Join(_)
Join(parts) ==
    IF Len(parts) = 1 THEN parts[1]
    ELSE parts[1] \o <<",">> \o Join(Tail(parts))

KeyParts ==
    { <<"A">>, <<" ", "B", "E", " ">>, <<"G", "\\", "T">>, <<>>,
      <<" ", "D", "E", "\\", "T", " ">> }

KeyInputs == {Join(ps) : ps \in UNION {[1..n -> KeyParts] : n \in 1..MaxParts}}

InitKey ==
    /\ key \in KeyInputs
    /\ parsed = NoDims
    /\ kstep = "input"

CallParseMetadata ==
    /\ kstep = "input"
    /\ parsed' = parse_metadata_row(key)
    /\ kstep' = "parse_metadata"
    /\ UNCHANGED <<key, cellvars, objvars, filevars>>

CallParseEurostatHeader ==
    /\ kstep = "input"
    /\ parsed' = parse_eurostat_header(key)
    /\ kstep' = "parse_eurostat_header"
    /\ UNCHANGED <<key, cellvars, objvars, filevars>>

-----------------------------------------------------------------------------
(* clean_eurostat.py: EurostatCleaner *)

(* The CSV files read: a header of period labels (Eurostat's carry a        *)
(* trailing space), and rows of a key and one cell text per period          *)
EurostatHeader == << <<"2","0","2","0"," ">>, <<"2","0","2","1"," ">> >>

(* further headers: periods out of order, three periods, and a label that   *)
(* is no integer                                                            *)
UnorderedHeader == << <<"1","0">>, <<"9">> >>
ThreeYearHeader == << <<"2","0","2","0">>, <<"2","0","2","1">>, <<"2","0","2","2">> >>
QuarterHeader == << <<"2","0","2","0">>, <<"Q","1">> >>

Headers == {EurostatHeader, UnorderedHeader, ThreeYearHeader, QuarterHeader}

RawKeys ==
    { <<"A",",","P","C",",","I","W","W",",","B","E">>,
      <<"A",",","P","C",",","R","A","I","L",",","n","l">>,
      <<"A",",","P","C",",","I","W","W">>,
      <<>> }

(* the cells of one row, one per period *)
RawRowCells ==
    { << <<"1","0">>, <<"2","0"," ","e">> >>,
      << <<"2","0"," ","e">>, <<":">> >>,
      << <<":">>, <<"1","0">> >> }

(* keys with the period suffix Eurostat puts after the geography *)
SuffixKeys ==
    { <<"A",",","P","C",",","I","W","W",",","B","E","\\","T","I","M","E">>,
      <<"A",",","P","C",",","R","A","I","L",",","N","L","\\","T","I","M","E">> }

(* the rows a file with header h may hold *)
RawRowsOf(h) ==
    IF h = EurostatHeader THEN [key : RawKeys, cells : RawRowCells]
    ELSE IF h = UnorderedHeader
    THEN [key : {k \in RawKeys : Len(Split(k, ",")) = 4},
          cells : { << <<"0">>, <<"1","0">> >>, << <<"1","0"," ","e">>, <<"0">> >> }]
    ELSE IF h = ThreeYearHeader
    THEN [key : SuffixKeys,
          cells : { << <<"1","0">>, <<"1","0"," ","e">>, <<":">> >>,
                    << <<"1","0">>, <<"2","0">>, <<"3","0">> >> }]
    ELSE [key : {k \in RawKeys : Len(Split(k, ",")) = 4},
          cells : { << <<"1","0">>, <<":">> >>, << <<":">>, <<"2","0"," ","e">> >> }]

RawTables ==
    UNION { [header : {h},
             rows : UNION { [1..n -> RawRowsOf(h)] : n \in 0..MaxRows }] : h \in Headers }

NoTable == [loaded |-> FALSE, columns |-> <<>>, rows |-> <<>>]
NoFrame == [exists |-> FALSE, meta |-> FALSE, cols |-> <<>>, rows |-> <<>>]
NoLong == [exists |-> FALSE, rows |-> <<>>]
NoResult == [kind |-> "none"]
NoFile == [header |-> <<>>, rows |-> <<>>]
NoAnalysis == [called |-> FALSE]

IsIntText(t) ==
    LET d == IF t # <<>> /\ Head(t) \in {"+", "-"} THEN Tail(t) ELSE t
    IN  d # <<>> /\ AllDigits(d)

IsFloatText(t) == Range(t) \cap (Letters \cup Whitespace) = {} /\ IsFloat(PyFloat(t))

(* pd.read_csv's typing of one column: int64 when every field is an         *)
(* integer, float64 when every field is a number or empty, else object; an  *)
(* empty field is NaN                                                       *)
ReadCsvColumn(texts) ==
    LET n == Len(texts)
    IN  IF n > 0 /\ \A i \in 1..n : IsIntText(texts[i])
        THEN [i \in 1..n |-> IntCell(PyFloat(texts[i]))]
        ELSE IF \A i \in 1..n : texts[i] = <<>> \/ IsFloatText(texts[i])
        THEN [i \in 1..n |-> IF texts[i] = <<>> THEN NaNCell
                             ELSE FloatCell(PyFloat(texts[i]))]
        ELSE [i \in 1..n |-> IF texts[i] = <<>> THEN NaNCell ELSE StrCell(texts[i])]

(* load_data: self.df = pd.read_csv(self.csv_path) *)
ReadCsv(raw) ==
    LET n    == Len(raw.rows)
        keys == ReadCsvColumn([i \in 1..n |-> raw.rows[i].key])
        col(j) == ReadCsvColumn([i \in 1..n |-> raw.rows[i].cells[j]])
    IN  [loaded |-> TRUE,
         columns |-> raw.header,
         rows |-> [i \in 1..n |->
                     [key |-> keys[i],
                      cells |-> [j \in 1..Len(raw.header) |-> col(j)[i]]]]]

(* self.year_cols = [col.strip() for col in self.df.columns[1:]] *)
year_cols(d) == [j \in 1..Len(d.columns) |-> Strip(d.columns[j])]

Ended(op, arg, exc) == [op |-> op, arg |-> arg, exc |-> exc]

(* the frames pd.read_csv(self.csv_path) gives when the file was rewritten   *)
(* before it is read again: the file of header 10,9 and row                 *)
(* A,PC,IWW,BE,0,10 (both columns int64), and the file of header            *)
(* "2020 ","2021 " and row A,PC,RAIL,nl,10,20 e (the second column object), *)
(* whose periods are among those of the three-period files                  *)
RewrittenFrames ==
    { [loaded |-> TRUE, columns |-> UnorderedHeader,
       rows |-> << [key |-> StrCell(<<"A",",","P","C",",","I","W","W",",","B","E">>),
                    cells |-> << IntCell(Float(FALSE, 0, 0)),
                                 IntCell(Float(FALSE, 1, 1)) >>] >>],
      [loaded |-> TRUE, columns |-> EurostatHeader,
       rows |-> << [key |-> StrCell(<<"A",",","P","C",",","R","A","I","L",",","n","l">>),
                    cells |-> << IntCell(Float(FALSE, 1, 1)),
                                 StrCell(<<"2","0"," ","e">>) >>] >>] }

(* the frames pd.read_csv(self.csv_path) may give: any file on the first    *)
(* read; on a later read the file as it was or as it was rewritten          *)
ReadFrames ==
    IF df.loaded THEN {df} \cup RewrittenFrames
    ELSE {ReadCsv(raw) : raw \in RawTables}

(* load_data rebinds self.df, self.metadata_col and self.year_cols and      *)
(* leaves self.cleaned_df and self.long_df as they are                      *)
load_data ==
    /\ df' \in ReadFrames
    /\ last' = Ended("load_data", <<>>, "none")
    /\ result' = NoResult
    /\ UNCHANGED <<cleaned_df, long_df, cellvars, keyvars, filevars>>

(* parse_metadata: one dict per row whose key has at least 4 parts, with    *)
(* the row's position in self.df as row_idx; meta_df is indexed 0..k-1      *)
parse_metadata(d) ==
    LET kept == SelectSeq([i \in 1..Len(d.rows) |-> i],
                          LAMBDA i : parse_metadata_row(d.rows[i].key.s).kind = "dict")
    IN  [j \in 1..Len(kept) |->
            [row_idx |-> kept[j] - 1, dims |-> parse_metadata_row(d.rows[kept[j]].key.s)]]

(* the columns clean_data's loop creates: cleaned[year_col.strip()] is      *)
(* created at the first column of that name and overwritten by later ones   *)
CleanedCols(d) ==
    LET yc == year_cols(d)
        firsts == SelectSeq([j \in 1..Len(yc) |-> j],
                            LAMBDA j : \A i \in 1..(j - 1) : yc[i] # yc[j])
    IN  [c \in 1..Len(firsts) |-> yc[firsts[c]]]

SourceCol(d, label) ==
    CHOOSE j \in 1..Len(d.columns) :
        /\ year_cols(d)[j] = label
        /\ \A i \in (j + 1)..Len(d.columns) : year_cols(d)[i] # label

(* the frame clean_data builds.  cleaned[col] = self.df[col].apply(...)     *)
(* aligns the cleaned column with cleaned's index by label: cleaned row j   *)
(* (label j-1) takes the value of self.df's row with label j-1.  When       *)
(* meta_df is empty it has no columns and no index, and the first column    *)
(* assigned gives the frame the index of self.df                            *)
CleanedFrame(d) ==
    LET meta == parse_metadata(d)
        cols == CleanedCols(d)
        vals(i) == [c \in 1..Len(cols) |-> clean_value(d.rows[i].cells[SourceCol(d, cols[c])])]
    IN  IF Len(meta) > 0
        THEN [exists |-> TRUE, meta |-> TRUE, cols |-> cols,
              rows |-> [j \in 1..Len(meta) |->
                          [row_idx |-> meta[j].row_idx, dims |-> meta[j].dims,
                           vals |-> vals(j)]]]
        ELSE [exists |-> TRUE, meta |-> FALSE, cols |-> cols,
              rows |-> [i \in 1..Len(d.rows) |->
                          [row_idx |-> -1, dims |-> NoDims, vals |-> vals(i)]]]

(* what clean_data prints about its run: the rows parse_metadata parsed,    *)
(* total_cells = len(cleaned) * len(self.year_cols), the count of non-null  *)
(* cells of the cleaned year columns and its percentage (nan for no cell:   *)
(* the division is one of a numpy integer)                                  *)
CountNonNull(cf) ==
    Cardinality({jc \in (1..Len(cf.rows)) \X (1..Len(cf.cols)) :
                    cf.rows[jc[1]].vals[jc[2]] # None})

PctComplete(non_null, total_cells) ==
    IF total_cells = 0 THEN NaN ELSE Num(non_null * 100, total_cells)

CleanReport(d) ==
    [kind |-> "clean_data",
     parsed |-> Len(parse_metadata(d)),
     total_cells |-> Len(CleanedFrame(d).rows) * Len(year_cols(d)),
     non_null |-> CountNonNull(CleanedFrame(d)),
     pct_complete |-> PctComplete(CountNonNull(CleanedFrame(d)),
                                  Len(CleanedFrame(d).rows) * Len(year_cols(d)))]

(* clean_data.  self.df.iterrows() on None and meta_str.split on a NaN key  *)
(* raise AttributeError before self.cleaned_df is assigned                  *)
clean_data ==
    /\ IF ~df.loaded \/ \E i \in 1..Len(df.rows) : df.rows[i].key.kind # "str"
       THEN /\ last' = Ended("clean_data", <<>>, "AttributeError")
            /\ result' = NoResult
            /\ UNCHANGED cleaned_df
       ELSE /\ cleaned_df' = CleanedFrame(df)
            /\ last' = Ended("clean_data", <<>>, "none")
            /\ result' = CleanReport(df)
    /\ UNCHANGED <<df, long_df, cellvars, keyvars, filevars>>

(* self.cleaned_df[column].str.upper().isin(allowed_upper) *)
IsInUpper(row, column, allowed_upper) ==
    Upper(row.dims[column]) \in {allowed_upper[i] : i \in 1..Len(allowed_upper)}

GeoArgs == { <<>>, << <<"b","e">> >>, << <<"B","E">>, <<"N","L">> >> }
ModeArgs == { <<>>, << <<"I","W","W">> >>, << <<"r","a","i","l">> >> }

(* the masked frame kept in reverse row order *)
filter_rows_Reversed(cf, column, allowed) ==
    LET allowed_upper == [i \in 1..Len(allowed) |-> Upper(allowed[i])]
        kept == SelectSeq(cf.rows, LAMBDA r : IsInUpper(r, column, allowed_upper))
    IN  [cf EXCEPT !.rows = [j \in 1..Len(kept) |-> kept[Len(kept) + 1 - j]]]

(* allowed_upper = [c.upper() for c in allowed]; the frame cf[mask].copy()  *)
(* for mask = cf[column].str.upper().isin(allowed_upper)                    *)
filter_rows(cf, column, allowed) ==
    LET allowed_upper == [i \in 1..Len(allowed) |-> Upper(allowed[i])]
    IN  [cf EXCEPT !.rows = SelectSeq(@, LAMBDA r : IsInUpper(r, column, allowed_upper))]

(* filter_geo comparing the column as it is, without upper-casing it *)
filter_geo_CaseSensitive(countries) ==
    LET countries_upper == [i \in 1..Len(countries) |-> Upper(countries[i])]
    IN  /\ IF ~cleaned_df.exists
           THEN /\ last' = Ended("filter_geo", countries, "ValueError")
                /\ UNCHANGED cleaned_df
           ELSE IF ~cleaned_df.meta
           THEN /\ last' = Ended("filter_geo", countries, "KeyError")
                /\ UNCHANGED cleaned_df
           ELSE /\ cleaned_df' =
                      [cleaned_df EXCEPT !.rows =
                          SelectSeq(@, LAMBDA r :
                              r.dims.geo \in {countries_upper[i] : i \in 1..Len(countries_upper)})]
                /\ last' = Ended("filter_geo", countries, "none")
        /\ result' = NoResult
        /\ UNCHANGED <<df, long_df, cellvars, keyvars, filevars>>

(* filter_geo: ValueError before clean_data; KeyError when the frame has no *)
(* 'geo' column; otherwise self.cleaned_df = self.cleaned_df[mask].copy()   *)
filter_geo(countries) ==
    /\ IF ~cleaned_df.exists
       THEN /\ last' = Ended("filter_geo", countries, "ValueError")
            /\ UNCHANGED cleaned_df
       ELSE IF ~cleaned_df.meta
       THEN /\ last' = Ended("filter_geo", countries, "KeyError")
            /\ UNCHANGED cleaned_df
       ELSE /\ cleaned_df' = filter_rows(cleaned_df, "geo", countries)
            /\ last' = Ended("filter_geo", countries, "none")
    /\ result' = NoResult
    /\ UNCHANGED <<df, long_df, cellvars, keyvars, filevars>>

(* filter_mode: the same on the 'tra_mode' column *)
filter_mode(modes) ==
    /\ IF ~cleaned_df.exists
       THEN /\ last' = Ended("filter_mode", modes, "ValueError")
            /\ UNCHANGED cleaned_df
       ELSE IF ~cleaned_df.meta
       THEN /\ last' = Ended("filter_mode", modes, "KeyError")
            /\ UNCHANGED cleaned_df
       ELSE /\ cleaned_df' = filter_rows(cleaned_df, "tra_mode", modes)
            /\ last' = Ended("filter_mode", modes, "none")
    /\ result' = NoResult
    /\ UNCHANGED <<df, long_df, cellvars, keyvars, filevars>>

FilterGeo == \E countries \in GeoArgs : filter_geo(countries)

FilterMode == \E modes \in ModeArgs : filter_mode(modes)

(* the characters of the model in code point order, for str comparison *)
AsciiSeq ==
    <<"\t", " ", "+", ",", "-", ".">> \o DigitSeq \o <<":">> \o UpperSeq
        \o <<"\\">> \o LowerSeq

Ord(c) == Pos(AsciiSeq, c)

(* a < b on str *)
RECURSIVE StrLess(_, _)
StrLess(a, b) ==
    IF b = <<>> THEN FALSE
    ELSE IF a = <<>> THEN TRUE
    ELSE IF Head(a) = Head(b) THEN StrLess(Tail(a), Tail(b))
    ELSE Ord(Head(a)) < Ord(Head(b))

(* int(t): whether it succeeds, and its value *)
IsIntLabel(t) == IsIntText(Strip(t))

PyInt(t) ==
    LET u == Strip(t)
    IN  IF Head(u) = "-" THEN 0 - ToNat(Tail(u))
        ELSE IF Head(u) = "+" THEN ToNat(Tail(u))
        ELSE ToNat(u)

(* the position of the column named label in the cleaned frame *)
ColumnOf(cf, label) == CHOOSE c \in 1..Len(cf.cols) : cf.cols[c] = label

(* every label is a column of the cleaned frame *)
HasColumns(cf, labels) ==
    \A j \in 1..Len(labels) : \E c \in 1..Len(cf.cols) : cf.cols[c] = labels[j]

(* cleaned_df.melt(id_vars, value_vars=labels, var_name='year',             *)
(* value_name='value'): one row per value column and frame row, the rows of *)
(* the first value column first                                             *)
Melt(cf, labels) ==
    LET n == Len(cf.rows)
    IN  [k \in 1..(Len(labels) * n) |->
            LET c == ((k - 1) \div n) + 1
                j == ((k - 1) % n) + 1
            IN  [freq |-> cf.rows[j].dims.freq, unit |-> cf.rows[j].dims.unit,
                 tra_mode |-> cf.rows[j].dims.tra_mode, geo |-> cf.rows[j].dims.geo,
                 year |-> labels[c],
                 value |-> cf.rows[j].vals[ColumnOf(cf, labels[c])]]]

(* a sorts strictly before b by ['geo', 'tra_mode', 'year'] *)
LongLess(a, b) ==
    \/ StrLess(a.geo, b.geo)
    \/ a.geo = b.geo /\ StrLess(a.tra_mode, b.tra_mode)
    \/ a.geo = b.geo /\ a.tra_mode = b.tra_mode /\ a.year < b.year

(* to_long_format without its sort *)
SortLong_Unsorted(rows) == rows

(* sort_values(['geo', 'tra_mode', 'year']): a stable sort *)
RECURSIVE SortLong(_)
SortLong(rows) ==
    IF rows = <<>> THEN <<>>
    ELSE LET init == SortLong(SubSeq(rows, 1, Len(rows) - 1))
             x    == rows[Len(rows)]
             k    == Cardinality({i \in 1..Len(init) : ~LongLess(x, init[i])})
         IN  SubSeq(init, 1, k) \o <<x>> \o SubSeq(init, k + 1, Len(init))

(* the long frame to_long_format builds from a melted frame whose labels    *)
(* are all integers: astype(int), dropna(subset=['value']), sort_values     *)
LongFrame(melted) ==
    LET typed == [k \in 1..Len(melted) |-> [melted[k] EXCEPT !.year = PyInt(@)]]
    IN  SortLong(SelectSeq(typed, LAMBDA r : r.value # None))

(* to_long_format: ValueError before clean_data; KeyError from melt when    *)
(* the frame lacks the id_vars columns or a column of self.year_cols (the   *)
(* period list of a table loaded after the clean); ValueError from          *)
(* astype(int) when a melted row carries a label that is no integer;        *)
(* otherwise self.long_df is assigned and returned                          *)
to_long_format ==
    LET melted == Melt(cleaned_df, year_cols(df))
    IN  /\ IF ~cleaned_df.exists
           THEN /\ last' = Ended("to_long_format", <<>>, "ValueError")
                /\ result' = NoResult
                /\ UNCHANGED long_df
           ELSE IF ~cleaned_df.meta \/ ~HasColumns(cleaned_df, year_cols(df))
           THEN /\ last' = Ended("to_long_format", <<>>, "KeyError")
                /\ result' = NoResult
                /\ UNCHANGED long_df
           ELSE IF \E k \in 1..Len(melted) : ~IsIntLabel(melted[k].year)
           THEN /\ last' = Ended("to_long_format", <<>>, "ValueError")
                /\ result' = NoResult
                /\ UNCHANGED long_df
           ELSE /\ long_df' = [exists |-> TRUE, rows |-> LongFrame(melted)]
                /\ result' = [kind |-> "long_df", rows |-> LongFrame(melted)]
                /\ last' = Ended("to_long_format", <<>>, "none")
        /\ UNCHANGED <<df, cleaned_df, cellvars, keyvars, filevars>>

-----------------------------------------------------------------------------
(* Statistics of sequences of numbers *)

RECURSIVE NumSum(_)
NumSum(xs) == IF xs = <<>> THEN Num(0, 1) ELSE NumAdd(Head(xs), NumSum(Tail(xs)))

RECURSIVE NumSort(_)
NumSort(xs) ==
    IF xs = <<>> THEN <<>>
    ELSE LET init == NumSort(SubSeq(xs, 1, Len(xs) - 1))
             x    == xs[Len(xs)]
             k    == Cardinality({i \in 1..Len(init) : ~NumLess(x, init[i])})
         IN  SubSeq(init, 1, k) \o <<x>> \o SubSeq(init, k + 1, Len(init))

(* values.mean(), median(), min(), max() of a non-empty sequence *)
Mean(xs) == NumDiv(NumSum(xs), Num(Len(xs), 1))

Median(xs) ==
    LET srt == NumSort(xs)
        n   == Len(xs)
    IN  IF n % 2 = 1 THEN srt[(n + 1) \div 2]
        ELSE NumDiv(NumAdd(srt[n \div 2], srt[(n \div 2) + 1]), Num(2, 1))

Min(xs) == NumSort(xs)[1]
Max(xs) == NumSort(xs)[Len(xs)]

(* the sum of squared deviations from the mean *)
SquaredDeviations(xs) ==
    NumSum([i \in 1..Len(xs) |->
               NumMul(NumSub(xs[i], Mean(xs)), NumSub(xs[i], Mean(xs)))])

(* Series.std(): the sample standard deviation (ddof = 1), nan for a single *)
(* value                                                                    *)
Std(xs) ==
    IF Len(xs) < 2 THEN NaN
    ELSE LET var == NumDiv(SquaredDeviations(xs), Num(Len(xs) - 1, 1))
         IN  [kind |-> "sqrt", num |-> var.num, den |-> var.den]

(* sorted(...unique()) of a set of str *)
RECURSIVE SortedStrs(_)
SortedStrs(S) ==
    IF S = {} THEN <<>>
    ELSE LET least == CHOOSE t \in S : \A u \in S : ~StrLess(u, t)
         IN  <<least>> \o SortedStrs(S \ {least})

(* frame[self.year_cols].values.flatten() without the missing values, as    *)
(* numbers: row by row, the columns in the order of labels                  *)
FlatValues(cf, rows, labels) ==
    LET P == Len(labels)
        all == [k \in 1..(Len(rows) * P) |->
                   rows[((k - 1) \div P) + 1].vals[ColumnOf(cf, labels[((k - 1) % P) + 1])]]
        present == SelectSeq(all, LAMBDA v : v # None)
    IN  [k \in 1..Len(present) |-> ToNum(present[k])]

(* the records summary_stats appends for one dimension column *)
GroupStats(cf, column, labels) ==
    LET keys == SortedStrs({cf.rows[j].dims[column] : j \in 1..Len(cf.rows)})
        values(geo) ==
            FlatValues(cf, SelectSeq(cf.rows, LAMBDA r : r.dims[column] = geo), labels)
        kept == SelectSeq(keys, LAMBDA geo : Len(values(geo)) > 0)
    IN  [g \in 1..Len(kept) |->
            [key |-> kept[g], count |-> Len(values(kept[g])),
             mean |-> Mean(values(kept[g])), median |-> Median(values(kept[g])),
             min |-> Min(values(kept[g])), max |-> Max(values(kept[g]))]]

(* summary_stats: ValueError before clean_data; KeyError when the frame has *)
(* no 'geo' column, or when a group is selected with self.year_cols and the *)
(* frame lacks one of those columns; otherwise the per-country records      *)
(* (returned) and the per-mode records (printed)                            *)
summary_stats ==
    /\ IF ~cleaned_df.exists
       THEN /\ last' = Ended("summary_stats", <<>>, "ValueError")
            /\ result' = NoResult
       ELSE IF \/ ~cleaned_df.meta
               \/ cleaned_df.rows # <<>> /\ ~HasColumns(cleaned_df, year_cols(df))
       THEN /\ last' = Ended("summary_stats", <<>>, "KeyError")
            /\ result' = NoResult
       ELSE /\ last' = Ended("summary_stats", <<>>, "none")
            /\ result' = [kind |-> "summary_stats",
                          country_stats |-> GroupStats(cleaned_df, "geo", year_cols(df)),
                          mode_stats |-> GroupStats(cleaned_df, "tra_mode", year_cols(df))]
    /\ UNCHANGED <<df, cleaned_df, long_df, cellvars, keyvars, filevars>>

(* the non-missing values of one column: self.cleaned_df[year].dropna() *)
ColumnValues(cf, label) ==
    LET all == [j \in 1..Len(cf.rows) |-> cf.rows[j].vals[ColumnOf(cf, label)]]
        present == SelectSeq(all, LAMBDA v : v # None)
    IN  [k \in 1..Len(present) |-> ToNum(present[k])]

(* self.cleaned_df[year].mean(): nan when the column has no value *)
ColumnMean(cf, label) ==
    IF Len(ColumnValues(cf, label)) = 0 THEN NaN ELSE Mean(ColumnValues(cf, label))

(* (change / first_mean) * 100 on numpy floats: a division by zero gives    *)
(* inf, -inf or nan and raises nothing                                      *)
PctChange(change, first_mean) ==
    IF first_mean.num # 0 THEN NumMul(NumDiv(change, first_mean), Num(100, 1))
    ELSE IF change.num > 0 THEN PosInf
    ELSE IF change.num < 0 THEN NegInf
    ELSE NaN

NoTrend == [printed |-> FALSE]

(* the lines analyze_trends prints: one per period that has values, and the *)
(* overall trend when both the first and the last period have a mean        *)
TrendReport(cf, labels) ==
    LET kept == SelectSeq(labels, LAMBDA label : Len(ColumnValues(cf, label)) > 0)
        first_year == labels[1]
        last_year == labels[Len(labels)]
        first_mean == ColumnMean(cf, first_year)
        last_mean == ColumnMean(cf, last_year)
    IN  [kind |-> "analyze_trends",
         years |-> [g \in 1..Len(kept) |->
                       [year |-> kept[g], count |-> Len(ColumnValues(cf, kept[g])),
                        mean |-> Mean(ColumnValues(cf, kept[g])),
                        median |-> Median(ColumnValues(cf, kept[g])),
                        std |-> Std(ColumnValues(cf, kept[g]))]],
         trend |-> IF first_mean # NaN /\ last_mean # NaN
                   THEN [printed |-> TRUE,
                         first_year |-> first_year, last_year |-> last_year,
                         first_mean |-> first_mean, last_mean |-> last_mean,
                         change |-> NumSub(last_mean, first_mean),
                         pct_change |-> PctChange(NumSub(last_mean, first_mean), first_mean)]
                   ELSE NoTrend]

(* analyze_trends: ValueError before clean_data; KeyError from              *)
(* self.cleaned_df[year] when the frame lacks a column of self.year_cols;   *)
(* otherwise it prints its report and returns None                          *)
analyze_trends ==
    /\ IF ~cleaned_df.exists
       THEN /\ last' = Ended("analyze_trends", <<>>, "ValueError")
            /\ result' = NoResult
       ELSE IF ~HasColumns(cleaned_df, year_cols(df))
       THEN /\ last' = Ended("analyze_trends", <<>>, "KeyError")
            /\ result' = NoResult
       ELSE /\ last' = Ended("analyze_trends", <<>>, "none")
            /\ result' = TrendReport(cleaned_df, year_cols(df))
    /\ UNCHANGED <<df, cleaned_df, long_df, cellvars, keyvars, filevars>>

(* the files the exports are asked to write *)
OutputPaths == { <<"o",".","c","s","v">>, <<"o",".","x","l","s","x">> }

(* output_path.suffix: the name from its last dot on *)
Suffix(path) ==
    IF ~Contains(path, ".") THEN <<>>
    ELSE LET k == CHOOSE i \in 1..Len(path) :
                      path[i] = "." /\ \A j \in (i + 1)..Len(path) : path[j] # "."
         IN  SubSeq(path, k, Len(path))

Format(path) == IF Suffix(path) = <<".","x","l","s","x">> THEN "xlsx" ELSE "csv"

(* the file an export leaves at output_path *)
WideFile(path, cf) == [kind |-> "file", format |-> Format(path), layout |-> "wide", frame |-> cf]
LongFile(path, rows) == [kind |-> "file", format |-> Format(path), layout |-> "long", rows |-> rows]

(* export_wide without its test of self.cleaned_df: None has no to_csv *)
export_wide_Unguarded(output_path) ==
    /\ IF ~cleaned_df.exists
       THEN /\ last' = Ended("export_wide", output_path, "AttributeError")
            /\ result' = NoResult
       ELSE /\ last' = Ended("export_wide", output_path, "none")
            /\ result' = WideFile(output_path, cleaned_df)
    /\ UNCHANGED <<df, cleaned_df, long_df, cellvars, keyvars, filevars>>

(* export_wide: ValueError before clean_data; otherwise self.cleaned_df is  *)
(* written with to_excel or to_csv                                          *)
export_wide(output_path) ==
    /\ IF ~cleaned_df.exists
       THEN /\ last' = Ended("export_wide", output_path, "ValueError")
            /\ result' = NoResult
       ELSE /\ last' = Ended("export_wide", output_path, "none")
            /\ result' = WideFile(output_path, cleaned_df)
    /\ UNCHANGED <<df, cleaned_df, long_df, cellvars, keyvars, filevars>>

(* export_long: self.to_long_format() is called only when self.long_df is   *)
(* None, with its exceptions and its assignment of self.long_df; then       *)
(* self.long_df is written                                                  *)
export_long(output_path) ==
    LET melted == Melt(cleaned_df, year_cols(df))
    IN  /\ IF long_df.exists
           THEN /\ last' = Ended("export_long", output_path, "none")
                /\ result' = LongFile(output_path, long_df.rows)
                /\ UNCHANGED long_df
           ELSE IF ~cleaned_df.exists
           THEN /\ last' = Ended("export_long", output_path, "ValueError")
                /\ result' = NoResult
                /\ UNCHANGED long_df
           ELSE IF ~cleaned_df.meta \/ ~HasColumns(cleaned_df, year_cols(df))
           THEN /\ last' = Ended("export_long", output_path, "KeyError")
                /\ result' = NoResult
                /\ UNCHANGED long_df
           ELSE IF \E k \in 1..Len(melted) : ~IsIntLabel(melted[k].year)
           THEN /\ last' = Ended("export_long", output_path, "ValueError")
                /\ result' = NoResult
                /\ UNCHANGED long_df
           ELSE /\ long_df' = [exists |-> TRUE, rows |-> LongFrame(melted)]
                /\ last' = Ended("export_long", output_path, "none")
                /\ result' = LongFile(output_path, LongFrame(melted))
        /\ UNCHANGED <<df, cleaned_df, cellvars, keyvars, filevars>>

ExportWide == \E output_path \in OutputPaths : export_wide(output_path)

ExportLong == \E output_path \in OutputPaths : export_long(output_path)

-----------------------------------------------------------------------------
(* analyze_eurostat.py: analyze_eurostat_file *)

(* the class the data-quality loop counts one cell in: val_str is           *)
(* str(val).strip(); every class but "missing" also counts as valid         *)
TallyClass(val) ==
    LET val_str == Strip(PyStr(val))
    IN  IF Contains(val_str, ":") \/ val_str = <<"n","a","n">> \/ val_str = <<>>
        THEN "missing"
        ELSE IF Contains(val_str, "e") THEN "estimated"
        ELSE IF Contains(val_str, "b") THEN "break"
        ELSE "valid"

(* the cells of the year columns, as <<row, column>> *)
CellsOf(d) == (1..Len(d.rows)) \X (1..Len(d.columns))

CountClass(d, classes) ==
    Cardinality({ic \in CellsOf(d) : TallyClass(d.rows[ic[1]].cells[ic[2]]) \in classes})

NoTally == [printed |-> FALSE]

(* the counters as they are printed after the loop *)
Tally(d) ==
    [printed |-> TRUE,
     total_cells |-> Len(d.rows) * Len(d.columns),
     missing_count |-> CountClass(d, {"missing"}),
     estimated_count |-> CountClass(d, {"estimated"}),
     break_count |-> CountClass(d, {"break"}),
     valid_count |-> CountClass(d, {"estimated", "break", "valid"})]

(* parsed_data: the first four parts, as they are, of every key with at     *)
(* least 4 parts                                                            *)
AnalyzeMeta(d) ==
    LET kept == SelectSeq([i \in 1..Len(d.rows) |-> i],
                          LAMBDA i : Len(Split(d.rows[i].key.s, ",")) >= 4)
    IN  [j \in 1..Len(kept) |->
            LET parts == Split(d.rows[kept[j]].key.s, ",")
            IN  Dims(parts[1], parts[2], parts[3], parts[4])]

(* the sample lines print each of the last 3 years of the first 10 rows     *)
(* with f"{val:>8s}": whether all those cells are str                       *)
SampleCellsAreStr(d) ==
    \A i \in 1..Len(d.rows) : \A c \in 1..Len(d.columns) :
        (i <= 10 /\ c > Len(d.columns) - 3) => d.rows[i].cells[c].kind = "str"

(* numeric_df = df[year_cols].applymap(clean_eurostat_value) *)
NumericFrame(d) ==
    [i \in 1..Len(d.rows) |->
        [c \in 1..Len(d.columns) |-> clean_eurostat_value(d.rows[i].cells[c])]]

(* numeric_df[year].dropna() *)
NumericValues(numeric, c) ==
    LET all == [i \in 1..Len(numeric) |-> numeric[i][c]]
        present == SelectSeq(all, LAMBDA v : v # None)
    IN  [k \in 1..Len(present) |-> ToNum(present[k])]

(* the year-by-year lines: one per year column that has values *)
AnalyzeYears(d, numeric) ==
    LET kept == SelectSeq([c \in 1..Len(d.columns) |-> c],
                          LAMBDA c : Len(NumericValues(numeric, c)) > 0)
    IN  [g \in 1..Len(kept) |->
            [year |-> d.columns[kept[g]],
             count |-> Len(NumericValues(numeric, kept[g])),
             mean |-> Mean(NumericValues(numeric, kept[g])),
             median |-> Median(NumericValues(numeric, kept[g])),
             min |-> Min(NumericValues(numeric, kept[g])),
             max |-> Max(NumericValues(numeric, kept[g]))]]

(* the trend lines, printed when the first and the last year have values *)
AnalyzeTrend(d, numeric) ==
    LET first_year_values == NumericValues(numeric, 1)
        last_year_values == NumericValues(numeric, Len(d.columns))
    IN  IF Len(first_year_values) > 0 /\ Len(last_year_values) > 0
        THEN [printed |-> TRUE,
              first_mean |-> Mean(first_year_values),
              last_mean |-> Mean(last_year_values),
              change |-> NumSub(Mean(last_year_values), Mean(first_year_values)),
              pct_change |-> PctChange(NumSub(Mean(last_year_values),
                                              Mean(first_year_values)),
                                       Mean(first_year_values))]
        ELSE NoTrend

Analysis(exc, meta, tally, numeric, years, trend) ==
    [called |-> TRUE, exc |-> exc, meta_df |-> meta, tally |-> tally,
     numeric_df |-> numeric, years |-> years, trend |-> trend]

(* analyze_eurostat_file on the frame read, in the order of its statements: *)
(* meta_str.split on a NaN key raises AttributeError; meta_df['freq'] on    *)
(* the frame of no parsed row raises KeyError; the tally is printed; a      *)
(* sample cell that is no str raises ValueError; clean_eurostat_value on a  *)
(* number raises AttributeError; the statistics and the trend are printed   *)
(* and (df, meta_df, numeric_df) returned                                   *)
AnalyzeFrame(d, numeric) ==
    IF \E i \in 1..Len(d.rows) : d.rows[i].key.kind # "str"
    THEN Analysis("AttributeError", <<>>, NoTally, <<>>, <<>>, NoTrend)
    ELSE IF AnalyzeMeta(d) = <<>>
    THEN Analysis("KeyError", <<>>, NoTally, <<>>, <<>>, NoTrend)
    ELSE IF ~SampleCellsAreStr(d)
    THEN Analysis("ValueError", AnalyzeMeta(d), Tally(d), <<>>, <<>>, NoTrend)
    ELSE IF \E ic \in CellsOf(d) : numeric[ic[1]][ic[2]].kind = "AttributeError"
    THEN Analysis("AttributeError", AnalyzeMeta(d), Tally(d), <<>>, <<>>, NoTrend)
    ELSE Analysis("none", AnalyzeMeta(d), Tally(d), numeric,
                  AnalyzeYears(d, numeric), AnalyzeTrend(d, numeric))

AnalyzeFile(raw) == AnalyzeFrame(ReadCsv(raw), NumericFrame(ReadCsv(raw)))

(* cells with flags of either case and a cell that is no number *)
FlaggedRowCells ==
    { << <<"1","0"," ","b">>, <<"1","0"," ","E">> >>,
      << <<"1","2",".","3"," ","e">>, <<":">> >>,
      << <<":"," ","c">>, <<"x">> >> }

(* the files analyze_eurostat_file is given *)
AnalyzeTables ==
    RawTables \cup
        [header : {EurostatHeader},
         rows : UNION { [1..n -> [key : {k \in RawKeys : Len(k) > 0},
                                  cells : FlaggedRowCells]] : n \in 0..MaxRows }]

InitFile ==
    /\ csv \in AnalyzeTables
    /\ analysis = NoAnalysis

analyze_eurostat_file ==
    /\ ~analysis.called
    /\ analysis' = AnalyzeFile(csv)
    /\ UNCHANGED <<csv, cellvars, keyvars, objvars>>

InitObj ==
    /\ df = NoTable
    /\ cleaned_df = NoFrame
    /\ long_df = NoLong
    /\ last = Ended("__init__", <<>>, "none")
    /\ result = NoResult

IdleCell == cell = NaNCell /\ out = NoOut /\ first = NoOut /\ step = "idle"
IdleKey == key = <<>> /\ parsed = NoDims /\ kstep = "idle"
IdleFile == csv = NoFile /\ analysis = NoAnalysis

vars ==
    <<cell, out, first, step, key, parsed, kstep, df, cleaned_df, long_df, last, result,
      csv, analysis>>

-----------------------------------------------------------------------------
(* Specifications *)

(* the cell cleaners applied to one cell *)
InitSpecCell == InitCell /\ IdleKey /\ InitObj /\ IdleFile
NextCell == CallCleanValue \/ CallCleanEurostatValue \/ ReCleanValue \/ ReCleanString
SpecCell == InitSpecCell /\ [][NextCell]_vars

(* the key parsers applied to one key *)
InitSpecKey == InitKey /\ IdleCell /\ InitObj /\ IdleFile
NextKey == CallParseMetadata \/ CallParseEurostatHeader
SpecKey == InitSpecKey /\ [][NextKey]_vars

(* analyze_eurostat_file applied to one file *)
InitSpecAnalyze == InitFile /\ IdleCell /\ IdleKey /\ InitObj
NextAnalyze == analyze_eurostat_file
SpecAnalyze == InitSpecAnalyze /\ [][NextAnalyze]_vars

(* an EurostatCleaner and the methods called on it *)
Init == InitObj /\ IdleCell /\ IdleKey /\ IdleFile
Next ==
    \/ load_data \/ clean_data \/ FilterGeo \/ FilterMode
    \/ to_long_format \/ summary_stats \/ analyze_trends
    \/ ExportWide \/ ExportLong
Spec == Init /\ [][Next]_vars

-----------------------------------------------------------------------------
(* Properties of cell cleaning (SpecCell) *)

Cleaned == step \in {"clean_value", "clean_eurostat_value"}

(* the cell denotes unavailability: absent, blank, or holding the marker *)
Unavailable(c) ==
    \/ IsNa(c)
    \/ c.kind = "str" /\ (Strip(c.s) = <<>> \/ Contains(c.s, ":"))

(* C1: every cell that is absent, blank after trimming, or that contains    *)
(* the marker ':' anywhere cleans to None.                                  *)
C1_UnavailableIsNone ==
    Cleaned /\ Unavailable(cell) => out.value = None

(* a numeric literal with no letters and no marker *)
PurelyNumeric(c) ==
    /\ c.kind = "str"
    /\ Range(c.s) \cap (Letters \cup {":"}) = {}
    /\ IsFloat(PyFloat(c.s))

(* C2: a purely numeric cell cleans to exactly the number it spells, with   *)
(* an empty flag set.                                                       *)
C2_NumericUnchanged ==
    step = "clean_value" /\ PurelyNumeric(cell)
        => out.value = PyFloat(cell.s) /\ out.flags = {}

C2_Witness ==
    /\ step = "clean_value" /\ PurelyNumeric(cell)
    /\ cell.s = <<"-", ".", "1">>
    /\ out.value = Float(TRUE, 1, -1)

(* the cell without the letters and whitespace around its literal *)
RECURSIVE LTrim(_, _)
LTrim(s, cs) == IF s # <<>> /\ Head(s) \in cs THEN LTrim(Tail(s), cs) ELSE s

RECURSIVE RTrim(_, _)
RTrim(s, cs) ==
    IF s # <<>> /\ s[Len(s)] \in cs THEN RTrim(SubSeq(s, 1, Len(s) - 1), cs) ELSE s

Literal(s) == RTrim(LTrim(s, Letters \cup Whitespace), Letters \cup Whitespace)

(* a numeric literal with letters and whitespace before or after it *)
FlaggedNumeric(c) ==
    /\ c.kind = "str"
    /\ ~Unavailable(c)
    /\ Range(Literal(c.s)) \cap (Letters \cup Whitespace) = {}
    /\ IsFloat(PyFloat(Literal(c.s)))

(* C3: a cell made of a numeric literal, letters and whitespace cleans to   *)
(* the number of the literal, and its flag set is the set of lowercase      *)
(* letters of the cell.                                                     *)
C3_FlagsDoNotChangeValue ==
    Cleaned /\ FlaggedNumeric(cell)
        => /\ out.value = PyFloat(Literal(cell.s))
           /\ step = "clean_value" => out.flags = Range(cell.s) \cap LowerLetters

(* C3 for EurostatCleaner alone *)
C3_CleanValueOnly ==
    step = "clean_value" /\ FlaggedNumeric(cell)
        => /\ out.value = PyFloat(Literal(cell.s))
           /\ out.flags = Range(cell.s) \cap LowerLetters

(* C4: cleaning is total: it returns a number or None and never raises, and *)
(* a remainder that is no numeric literal gives None.                       *)
C4_Total ==
    Cleaned
        => /\ out.value.kind \in {"float", "None"}
           /\ cell.kind = "str"
                 /\ ~IsFloat(PyFloat(ReSub(Letters \cup Whitespace, cell.s)))
                 => out.value = None

(* C4 for EurostatCleaner alone *)
C4_CleanValueOnly ==
    step \in {"clean_value", "reclean_value", "reclean_string"}
        => out.value.kind \in {"float", "None"}

(* the same number: equal, or both zero (-0.0 == 0.0) *)
SameNumber(a, b) == a = b \/ (IsFloat(a) /\ IsFloat(b) /\ a.m = 0 /\ b.m = 0)

(* C5: cleaning again the number a cell cleaned to, as a value or as its    *)
(* string form, gives the same number and no flags.                         *)
C5_Idempotent ==
    step \in {"reclean_value", "reclean_string"}
        => SameNumber(out.value, first.value) /\ out.flags = {}

-----------------------------------------------------------------------------
(* Properties of key decomposition (SpecKey) *)

(* C6: a key of at least 4 parts decomposes into its first four parts,      *)
(* trimmed, the fourth cut at the first backslash.                          *)
C6_Decompose ==
    kstep \in {"parse_metadata", "parse_eurostat_header"}
        /\ Len(Split(key, ",")) >= 4
        => LET p == Split(key, ",")
           IN  parsed = Dims(Strip(p[1]), Strip(p[2]), Strip(p[3]),
                             Strip(Split(p[4], "\\")[1]))

-----------------------------------------------------------------------------
(* Properties of the EurostatCleaner (Spec) *)

(* the key text of input row i has at least 4 comma-separated parts *)
ValidKey(row) == row.key.kind = "str" /\ Len(Split(row.key.s, ",")) >= 4

ValidRows == {i \in 1..Len(df.rows) : ValidKey(df.rows[i])}

(* C7: a key of fewer than 4 parts never aborts clean_data, and the cleaned *)
(* table has exactly one row, with its dimensions, per input row with a     *)
(* valid key, also when no key is valid.                                    *)
C7_InvalidKeysSkipped ==
    last.op = "clean_data" /\ df.loaded
        => /\ last.exc = "none"
           /\ cleaned_df.exists
           /\ Len(cleaned_df.rows) = Cardinality(ValidRows)
           /\ \A j \in 1..Len(cleaned_df.rows) : cleaned_df.rows[j].dims.kind = "dict"

(* C8: the cleaned value of a surviving row at a period is the cleaning of  *)
(* the raw cell of its own source row at that period.                       *)
C8_OwnCell ==
    last.op = "clean_data" /\ last.exc = "none"
        => \A j \in 1..Len(cleaned_df.rows) :
              LET r == cleaned_df.rows[j]
              IN  r.dims.kind = "dict"
                  => \A c \in 1..Len(cleaned_df.cols) :
                        r.vals[c] = clean_value(
                            df.rows[r.row_idx + 1].cells[SourceCol(df, cleaned_df.cols[c])])

(* case folding, independently of str.upper() *)
LowerChar(c) == IF c \in UpperLetters THEN LowerSeq[Pos(UpperSeq, c)] ELSE c

CaseFold(t) == [i \in 1..Len(t) |-> LowerChar(t[i])]

FilterOps == {"filter_geo", "filter_mode"}

FilterColumn(op) == IF op = "filter_geo" THEN "geo" ELSE "tra_mode"

(* the rows of seq whose dimension column, case-folded, is in the           *)
(* case-folded allowed list                                                 *)
Matching(seq, column, allowed) ==
    SelectSeq(seq, LAMBDA r :
        \E i \in 1..Len(allowed) : CaseFold(r.dims[column]) = CaseFold(allowed[i]))

(* C9: a filter that completes retains exactly the rows whose dimension     *)
(* value is, case-insensitively, a member of the allowed set, in order.     *)
C9_FilterRetainsIff ==
    [][last'.op \in FilterOps /\ last'.exc = "none"
         => cleaned_df' = [cleaned_df EXCEPT !.rows =
                              Matching(cleaned_df.rows, FilterColumn(last'.op), last'.arg)]]_vars

C9_Witness ==
    /\ last = Ended("filter_geo", << <<"b","e">> >>, "none")
    /\ Len(df.rows) = 2 /\ \A i \in 1..2 : ValidKey(df.rows[i])
    /\ Len(cleaned_df.rows) = 1
    /\ cleaned_df.rows[1].dims.geo = <<"B","E">>

(* C10: a filter with an empty allowed set is not an error and leaves an    *)
(* empty table.                                                             *)
C10_EmptyAllowedGivesEmpty ==
    last.op \in FilterOps /\ last.arg = <<>> /\ last.exc # "ValueError"
        => last.exc = "none" /\ cleaned_df.rows = <<>>

(* C11: a filter leaves the cleaner holding the table it held before the   *)
(* call, with all its rows and values, and leaves the raw table unchanged.  *)
C11_FilterKeepsInput ==
    [][last'.op \in FilterOps => cleaned_df' = cleaned_df /\ df' = df]_vars

ToLongDone == last = Ended("to_long_format", <<>>, "none")

(* the non-missing cells of the cleaned table, as <<row, column>> *)
PresentCells ==
    {jc \in (1..Len(cleaned_df.rows)) \X (1..Len(cleaned_df.cols)) :
        cleaned_df.rows[jc[1]].vals[jc[2]] # None}

(* long row o is the observation of cleaned cell jc *)
ObservationOf(o, jc) ==
    LET r == cleaned_df.rows[jc[1]]
    IN  /\ <<o.freq, o.unit, o.tra_mode, o.geo>>
              = <<r.dims.freq, r.dims.unit, r.dims.tra_mode, r.dims.geo>>
        /\ IsIntLabel(cleaned_df.cols[jc[2]]) /\ o.year = PyInt(cleaned_df.cols[jc[2]])
        /\ o.value = r.vals[jc[2]]

(* C12: to_long produces exactly one long observation per non-missing cell  *)
(* of the cleaned table: M rows for M such cells, none for a missing cell,  *)
(* and none without a source cell.                                          *)
C12_OnePerPresentCell ==
    ToLongDone
        => /\ Len(long_df.rows) = Cardinality(PresentCells)
           /\ \A k \in 1..Len(long_df.rows) :
                 \E jc \in PresentCells : ObservationOf(long_df.rows[k], jc)
           /\ \A jc \in PresentCells :
                 \E k \in 1..Len(long_df.rows) : ObservationOf(long_df.rows[k], jc)

(* (geography, transport_mode, period) of a is at most that of b *)
TripleLeq(a, b) ==
    \/ StrLess(a.geo, b.geo)
    \/ a.geo = b.geo /\ StrLess(a.tra_mode, b.tra_mode)
    \/ a.geo = b.geo /\ a.tra_mode = b.tra_mode /\ a.year <= b.year

(* C13: the long table is sorted ascending by geography, then transport     *)
(* mode, then period as an integer: consecutive rows never decrease.        *)
C13_LongSorted ==
    long_df.exists
        => \A k \in 1..(Len(long_df.rows) - 1) :
              TripleLeq(long_df.rows[k], long_df.rows[k + 1])

(* periods 10 and 9 stand in this order in the header and leave in the      *)
(* order 9, 10; the row of "nl" stands before the row of "BE" and leaves    *)
(* after it                                                                 *)
C13_Witness ==
    /\ ToLongDone
    /\ df.columns = UnorderedHeader
    /\ Len(cleaned_df.rows) = 2
    /\ cleaned_df.rows[1].dims.geo = <<"n","l">>
    /\ cleaned_df.rows[2].dims.geo = <<"B","E">>
    /\ Len(long_df.rows) = 4
    /\ long_df.rows[1].geo = <<"B","E">> /\ long_df.rows[1].year = 9
    /\ long_df.rows[2].geo = <<"B","E">> /\ long_df.rows[2].year = 10

(* the values the long table holds for the dimensions and period of o *)
GroupValues(o) ==
    {long_df.rows[k].value : k \in
        {i \in 1..Len(long_df.rows) :
            [long_df.rows[i] EXCEPT !.value = None] = [o EXCEPT !.value = None]}}

(* C14: grouping the long observations by (frequency, unit, transport_mode, *)
(* geography, period) gives back, for each group, exactly the one value of  *)
(* the cleaned cell it comes from, also when two rows share their           *)
(* dimensions.                                                              *)
C14_RoundTrip ==
    ToLongDone
        => \A jc \in PresentCells :
              \E k \in 1..Len(long_df.rows) :
                  /\ ObservationOf(long_df.rows[k], jc)
                  /\ GroupValues(long_df.rows[k])
                        = {cleaned_df.rows[jc[1]].vals[jc[2]]}

(* C15: with a period label that is no integer, to_long_format fails and    *)
(* leaves the long table and the cleaned table as they were, whatever the   *)
(* number of rows of the cleaned table.                                     *)
C15_BadLabelFails ==
    [][last'.op = "to_long_format"
          /\ (\E c \in 1..Len(df.columns) : ~IsIntLabel(year_cols(df)[c]))
         => last'.exc # "none" /\ long_df' = long_df /\ cleaned_df' = cleaned_df]_vars

StatsDone == last = Ended("summary_stats", <<>>, "none")

(* the non-missing cells of the rows whose dimension column holds gkey *)
GroupCells(column, gkey) ==
    {jc \in PresentCells : cleaned_df.rows[jc[1]].dims[column] = gkey}

CellNum(jc) == ToNum(cleaned_df.rows[jc[1]].vals[jc[2]])

RECURSIVE SumOfCells(_)
SumOfCells(S) ==
    IF S = {} THEN Num(0, 1)
    ELSE LET jc == CHOOSE x \in S : TRUE
         IN  NumAdd(CellNum(jc), SumOfCells(S \ {jc}))

(* m is the median of the cells S: one of them with fewer than half of the  *)
(* cells on either side, or the midpoint of the two middle cells when it    *)
(* separates the cells into two halves                                      *)
IsMedianOf(m, S) ==
    LET below == {jc \in S : NumLess(CellNum(jc), m)}
        above == {jc \in S : NumLess(m, CellNum(jc))}
    IN  \/ /\ \E jc \in S : CellNum(jc) = m
           /\ 2 * Cardinality(below) < Cardinality(S)
           /\ 2 * Cardinality(above) < Cardinality(S)
        \/ /\ 2 * Cardinality(below) = Cardinality(S)
           /\ 2 * Cardinality(above) = Cardinality(S)
           /\ \E lo \in below, hi \in above :
                 /\ \A jc \in below : ~NumLess(CellNum(lo), CellNum(jc))
                 /\ \A jc \in above : ~NumLess(CellNum(jc), CellNum(hi))
                 /\ NumAdd(m, m) = NumAdd(CellNum(lo), CellNum(hi))

(* record rec carries the statistics of the cells S *)
IsAggregateOf(rec, S) ==
    /\ rec.count = Cardinality(S)
    /\ NumMul(rec.mean, Num(rec.count, 1)) = SumOfCells(S)
    /\ IsMedianOf(rec.median, S)
    /\ \E jc \in S : CellNum(jc) = rec.min
    /\ \A jc \in S : ~NumLess(CellNum(jc), rec.min)
    /\ \E jc \in S : CellNum(jc) = rec.max
    /\ \A jc \in S : ~NumLess(rec.max, CellNum(jc))

(* records recs are the aggregates of dimension column: one record per      *)
(* value that has non-missing cells, carrying their statistics              *)
AggregatesBy(recs, column) ==
    /\ \A g \in 1..Len(recs) : IsAggregateOf(recs[g], GroupCells(column, recs[g].key))
    /\ \A g, h \in 1..Len(recs) : recs[g].key = recs[h].key => g = h
    /\ \A jc \in PresentCells :
          \E g \in 1..Len(recs) : recs[g].key = cleaned_df.rows[jc[1]].dims[column]

(* C16: each aggregate record's count, mean, median, min and max are those  *)
(* of exactly the non-missing values of all rows and periods sharing its    *)
(* group key.                                                               *)
C16_GroupStatistics ==
    StatsDone
        => /\ AggregatesBy(result.country_stats, "geo")
           /\ AggregatesBy(result.mode_stats, "tra_mode")

TrendsDone == last = Ended("analyze_trends", <<>>, "none")

(* the aggregate records of the last report *)
ReportRecords ==
    IF StatsDone
    THEN {result.country_stats[g] : g \in 1..Len(result.country_stats)}
            \cup {result.mode_stats[g] : g \in 1..Len(result.mode_stats)}
    ELSE IF TrendsDone THEN {result.years[g] : g \in 1..Len(result.years)}
    ELSE {}

(* the statistics a record carries *)
StatisticsOf(rec) ==
    {rec.mean, rec.median}
        \cup (IF "std" \in DOMAIN rec THEN {rec.std} ELSE {rec.min, rec.max})

(* C17: every emitted aggregate record has count >= 1 and carries no NaN    *)
(* statistic: a group without observations never appears.                   *)
C17_NoEmptyGroup ==
    \A rec \in ReportRecords :
        rec.count >= 1 /\ \A x \in StatisticsOf(rec) : x.kind # "nan"

(* C17 for the count alone *)
C17_CountAtLeastOne == \A rec \in ReportRecords : rec.count >= 1

(* the population standard deviation (divisor = count) *)
Std_Population(xs) ==
    LET var == NumDiv(SquaredDeviations(xs), Num(Len(xs), 1))
    IN  [kind |-> "sqrt", num |-> var.num, den |-> var.den]

(* C18: the period records carry the population standard deviation of the   *)
(* period's values (0 for a single observation), and the dimension records  *)
(* carry no standard deviation.                                             *)
C18_PopulationStd ==
    /\ TrendsDone
          => \A g \in 1..Len(result.years) :
                result.years[g].std
                    = Std_Population(ColumnValues(cleaned_df, result.years[g].year))
    /\ StatsDone => \A rec \in ReportRecords : "std" \notin DOMAIN rec

(* C18 for the dimension records alone *)
C18_NoStdByDimension ==
    StatsDone => \A rec \in ReportRecords : "std" \notin DOMAIN rec

(* C19: when both periods have observations and the mean of the first is    *)
(* exactly zero, the trend completes and reports its percent delta as       *)
(* undefined: no number, no infinity, no NaN.                               *)
C19_ZeroBaselineUndefined ==
    last.op = "analyze_trends" /\ cleaned_df.exists
        /\ Len(ColumnValues(cleaned_df, year_cols(df)[1])) > 0
        /\ Len(ColumnValues(cleaned_df, year_cols(df)[Len(df.columns)])) > 0
        /\ Mean(ColumnValues(cleaned_df, year_cols(df)[1])) = Num(0, 1)
        => /\ last.exc = "none"
           /\ result.trend.printed
           /\ result.trend.pct_change.kind = "undefined"

(* the table of the end-to-end example *)
ExampleTable ==
    [header |-> ThreeYearHeader,
     rows |-> << [key |-> <<"A",",","P","C",",","I","W","W",",","B","E","\\","T","I","M","E">>,
                  cells |-> << <<"1","0">>, <<"1","0"," ","e">>, <<":">> >>] >>]

(* C20: the example table cleans to geography BE with 2020 = 10.0 without   *)
(* flags, 2021 = 10.0 flagged e (estimated) and 2022 = None; its long table *)
(* has exactly 2 rows; its aggregate by geography is one record for BE with *)
(* count 2 and mean 10.0.                                                   *)
C20_EndToEnd ==
    df = ReadCsv(ExampleTable) /\ cleaned_df = CleanedFrame(df)
        => /\ Len(cleaned_df.rows) = 1
           /\ cleaned_df.rows[1].dims.geo = <<"B","E">>
           /\ cleaned_df.rows[1].vals = <<Float(FALSE, 1, 1), Float(FALSE, 1, 1), None>>
           /\ extract_flags(df.rows[1].cells[1]) = <<>>
           /\ extract_flags(df.rows[1].cells[2]) = <<"e">>
           /\ ToLongDone => Len(long_df.rows) = 2
           /\ StatsDone
                 => /\ Len(result.country_stats) = 1
                    /\ result.country_stats[1].key = <<"B","E">>
                    /\ result.country_stats[1].count = 2
                    /\ result.country_stats[1].mean = Num(10, 1)

(* C20 with the geography as the cleaner stores it *)
C20_WithStoredGeography ==
    df = ReadCsv(ExampleTable) /\ cleaned_df = CleanedFrame(df)
        => /\ Len(cleaned_df.rows) = 1
           /\ cleaned_df.rows[1].dims.geo = <<"B","E","\\","T","I","M","E">>
           /\ cleaned_df.rows[1].vals = <<Float(FALSE, 1, 1), Float(FALSE, 1, 1), None>>
           /\ extract_flags(df.rows[1].cells[1]) = <<>>
           /\ extract_flags(df.rows[1].cells[2]) = <<"e">>
           /\ ToLongDone => Len(long_df.rows) = 2
           /\ StatsDone
                 => /\ Len(result.country_stats) = 1
                    /\ result.country_stats[1].key = <<"B","E","\\","T","I","M","E">>
                    /\ result.country_stats[1].count = 2
                    /\ result.country_stats[1].mean = Num(10, 1)

-----------------------------------------------------------------------------
(* Properties of the run counters, the exports and the filters *)

CleanDone == last.op = "clean_data" /\ last.exc = "none"

(* C21: after a clean run its counters are with the caller and describe     *)
(* that run: the cells counted are the cells of the rows parsed, and rows   *)
(* parsed plus rows skipped are the input rows.                             *)
C21_CountersDescribeRun ==
    CleanDone
        => /\ result.kind = "clean_data"
           /\ result.total_cells = result.parsed * Len(year_cols(df))
           /\ "skipped" \in DOMAIN result
           /\ result.parsed + result.skipped = Len(df.rows)

(* the cell is absent or blank after trimming *)
Blank(c) == IsNa(c) \/ (c.kind = "str" /\ Strip(c.s) = <<>>)

(* the raw cell of the source row of cleaned row r at cleaned column c *)
SourceCell(r, c) == df.rows[r.row_idx + 1].cells[SourceCol(df, cleaned_df.cols[c])]

(* C22: in the cleaned table a value is None exactly when its source cell   *)
(* denotes unavailability, and a None value whose cell yields no flag comes *)
(* from a blank cell only.                                                  *)
C22_NoneIffUnavailable ==
    CleanDone
        => \A j \in 1..Len(cleaned_df.rows) :
              LET r == cleaned_df.rows[j]
              IN  r.dims.kind = "dict"
                  => \A c \in 1..Len(cleaned_df.cols) :
                        /\ r.vals[c] = None <=> Unavailable(SourceCell(r, c))
                        /\ r.vals[c] = None /\ extract_flags(SourceCell(r, c)) = <<>>
                              => Blank(SourceCell(r, c))

(* a header label without the whitespace around it *)
PeriodOf(label) == RTrim(LTrim(label, Whitespace), Whitespace)

(* C23: whenever a cleaned table exists, its period columns are the periods *)
(* of the source header in the header's order, each under the label the     *)
(* period list has for it, and every row has one value per period.          *)
C23_PeriodOrderKept ==
    cleaned_df.exists
        => /\ cleaned_df.cols = [j \in 1..Len(df.columns) |-> PeriodOf(df.columns[j])]
           /\ cleaned_df.cols = year_cols(df)
           /\ \A j \in 1..Len(cleaned_df.rows) :
                 Len(cleaned_df.rows[j].vals) = Len(df.columns)

(* C24: the long table an export_long call writes is to_long_format of the  *)
(* cleaned table the cleaner holds at that call.                            *)
C24_ExportsCurrentTable ==
    last.op = "export_long" /\ last.exc = "none"
        => /\ result.kind = "file" /\ result.layout = "long"
           /\ cleaned_df.meta /\ HasColumns(cleaned_df, year_cols(df))
           /\ result.rows = LongFrame(Melt(cleaned_df, year_cols(df)))

(* the methods that need a cleaned table *)
NeedCleaned ==
    FilterOps \cup {"to_long_format", "summary_stats", "analyze_trends",
                    "export_wide", "export_long"}

(* C25: while the cleaner holds no cleaned table, a call of any method that *)
(* needs one ends with ValueError, writes nothing and leaves df, cleaned_df *)
(* and long_df as they were.                                                *)
C25_NeedsCleanFirst ==
    [][~cleaned_df.exists /\ last'.op \in NeedCleaned
          => /\ last'.exc = "ValueError"
             /\ result' = NoResult
             /\ df' = df /\ cleaned_df' = NoFrame /\ long_df' = NoLong]_vars

(* export_long called on a loaded table that was never cleaned *)
C25_Witness ==
    /\ last.op = "export_long" /\ last.exc = "ValueError"
    /\ df.loaded /\ Len(df.rows) > 0
    /\ cleaned_df = NoFrame /\ long_df = NoLong

(* a is b with some of its elements left out *)
RECURSIVE IsSubSeq(_, _)
IsSubSeq(a, b) ==
    IF a = <<>> THEN TRUE
    ELSE IF b = <<>> THEN FALSE
    ELSE IF Head(a) = Head(b) THEN IsSubSeq(Tail(a), Tail(b))
    ELSE IsSubSeq(a, Tail(b))

OtherColumn(op) == IF op = "filter_geo" THEN "tra_mode" ELSE "geo"
OtherArgs(op) == IF op = "filter_geo" THEN ModeArgs ELSE GeoArgs

(* C26: a filter that completes leaves a sub-sequence of the rows it found; *)
(* the same filter applied again changes nothing; and the other filter      *)
(* applied after it gives the table that results from the other filter      *)
(* applied first and this one second.                                       *)
C26_FiltersCommute ==
    [][last'.op \in FilterOps /\ last'.exc = "none"
         => /\ IsSubSeq(cleaned_df'.rows, cleaned_df.rows)
            /\ filter_rows(cleaned_df', FilterColumn(last'.op), last'.arg) = cleaned_df'
            /\ \A other \in OtherArgs(last'.op) :
                  filter_rows(cleaned_df', OtherColumn(last'.op), other)
                      = filter_rows(filter_rows(cleaned_df, OtherColumn(last'.op), other),
                                    FilterColumn(last'.op), last'.arg)]_vars

(* a table of a BE/IWW row and an nl/RAIL row: filter_geo(['be']) keeps the *)
(* first, filter_mode(['rail']) the second, and one after the other none    *)
C26_Witness ==
    /\ last = Ended("filter_mode", << <<"r","a","i","l">> >>, "none")
    /\ Len(CleanedFrame(df).rows) = 2
    /\ Len(filter_rows(CleanedFrame(df), "geo", << <<"b","e">> >>).rows) = 1
    /\ Len(filter_rows(CleanedFrame(df), "tra_mode", << <<"r","a","i","l">> >>).rows) = 1
    /\ cleaned_df.meta /\ cleaned_df.rows = <<>>

-----------------------------------------------------------------------------
(* Properties relating the two scripts (SpecCell, SpecAnalyze) *)

(* C27: on every string cell clean_value and clean_eurostat_value return    *)
(* the same result: the same number, or None both.                          *)
C27_CleanersAgree ==
    cell.kind = "str"
        => /\ step = "clean_value" => out.value = clean_eurostat_value(cell)
           /\ step = "clean_eurostat_value" => out.value = clean_value(cell)

(* the cells of the file read that clean_eurostat_value turns into a number *)
(* and into None                                                            *)
NumberCells(d) ==
    {ic \in CellsOf(d) : IsFloat(clean_eurostat_value(d.rows[ic[1]].cells[ic[2]]))}
NoneCells(d) ==
    {ic \in CellsOf(d) : clean_eurostat_value(d.rows[ic[1]].cells[ic[2]]) = None}

(* C28: the tally analyze_eurostat_file prints counts every cell once as    *)
(* missing or valid, estimated and break cells among the valid ones, and a  *)
(* cell is counted valid exactly when clean_eurostat_value gives a number   *)
(* for it and missing exactly when it gives None.                           *)
C28_TallyAgrees ==
    analysis.called /\ analysis.tally.printed
        => /\ analysis.tally.missing_count + analysis.tally.valid_count
                 = Len(csv.rows) * Len(csv.header)
           /\ analysis.tally.estimated_count + analysis.tally.break_count
                 <= analysis.tally.valid_count
           /\ analysis.tally.valid_count = Cardinality(NumberCells(ReadCsv(csv)))
           /\ analysis.tally.missing_count = Cardinality(NoneCells(ReadCsv(csv)))

(* the two counting identities of C28 alone *)
C28_CountedOnce ==
    analysis.called /\ analysis.tally.printed
        => /\ analysis.tally.missing_count + analysis.tally.valid_count
                 = Len(csv.rows) * Len(csv.header)
           /\ analysis.tally.estimated_count + analysis.tally.break_count
                 <= analysis.tally.valid_count

=============================================================================
